---- MODULE Spec2Model ----
(***************************************************************************)
(* Model of pootle/runner.py: the command-line bootstrap of Pootle         *)
(* (run_app, init_command, init_settings, configure_app, set_sync_mode).   *)
(*                                                                         *)
(* Text is modelled as a sequence of atoms, so that "'%s'" % "" and the    *)
(* literal "''" are the same value, as they are in Python.  A file-system  *)
(* path is the sequence of its components; "/" and "~" are leading         *)
(* markers.                                                                *)
(***************************************************************************)
EXTENDS Integers, Sequences, FiniteSets, TLC

VARIABLES
    argv,        \* sys.argv[1:]
    envSettings, \* os.environ['POOTLE_SETTINGS']: [set, val]
    envModule,   \* os.environ['DJANGO_SETTINGS_MODULE']: [set, val]
    files,       \* regular files that exist (absolute normalized paths)
    dirs,        \* directories that exist (absolute normalized paths)
    content,     \* content of every file of FilePaths (<<>> when empty or absent)
    loaded,      \* django settings have been configured (first attribute access)
    caches,      \* settings.CACHES.keys()
    queues,      \* settings.RQ_QUEUES: queue name -> its ASYNC flag
    rqConfig,    \* RQ_QUEUES as the settings file defined it (history)
    todo,        \* queues the loop of set_sync_mode has still to visit
    probe,       \* what rq_workers_are_running() answered
    answer,      \* what input() returned: [asked, text]
    pc,          \* position in run_app
    exitCode,    \* process exit status, Running while the process runs
    error,       \* the uncaught exception that ended the process, if any
    out,         \* messages written to the terminal, in order
    ran,         \* components entered, in order (history)
    command,     \* argument vector handed to management.execute_from_command_line
    call,        \* arguments of the last init_settings call: [made, db, ...]
    ctx,         \* template context built by the last init_settings call
    langDb,      \* pootle_language: the live languages, code -> revision of its row
    langCache,   \* the cache entry CACHE_KEY: [present, val]
    langOp,      \* the operation each web process performs
    langPc,      \* where each web process is in its operation
    languages    \* the local variable `languages` of cached(), per process

vars == << argv, envSettings, envModule, files, dirs, content, loaded, caches,
           queues, rqConfig, todo, probe, answer, pc, exitCode, error, out,
           ran, command, call, ctx, langDb, langCache, langOp, langPc, languages >>

langVars == << langDb, langCache, langOp, langPc, languages >>

----------------------------------------------------------------------------
(* Bounds of the model *)

MaxArgs == 3

NumQueues == 2

NumProcs == 2

Running == 0 - 1

----------------------------------------------------------------------------
(* Paths: os.path *)

HOME == << "/", "home" >>

CWD == << "/", "w" >>

DEFAULT_SETTINGS_PATH == << "~", ".pootle", "pootle.conf" >>

\* the value of the one --config=... token of the model: ./p.conf
AltConfig == << ".", "p.conf" >>

EnvConf == << "/", "env.conf" >>

expanduser(p) == IF p # << >> /\ p[1] = "~" THEN HOME \o Tail(p) ELSE p

isabs(p) == p # << >> /\ p[1] = "/"

RECURSIVE NormFrom(_, _)
NormFrom(acc, rest) ==
    IF rest = << >> THEN acc
    ELSE LET c == Head(rest) IN
         IF c = "." THEN NormFrom(acc, Tail(rest))
         ELSE IF c = ".."
              THEN IF Len(acc) > 1
                   THEN NormFrom(SubSeq(acc, 1, Len(acc) - 1), Tail(rest))
                   ELSE NormFrom(acc, Tail(rest))
              ELSE NormFrom(Append(acc, c), Tail(rest))

normpath(p) == IF isabs(p) THEN NormFrom(<< "/" >>, Tail(p))
               ELSE LET n == NormFrom(<< >>, p) IN IF n = << >> THEN << "." >> ELSE n

abspath(p) == normpath(IF isabs(p) THEN p ELSE CWD \o p)

dirname(p) == IF p = << >> THEN << >> ELSE SubSeq(p, 1, Len(p) - 1)

\* os.path.exists: the kernel resolves the name from the working directory
PathExists(p, fs, ds) == p # << >> /\ abspath(p) \in (fs \cup ds)

\* os.makedirs: the directory and every missing ancestor
makedirs(p, ds) ==
    LET a == abspath(p) IN ds \cup { SubSeq(a, 1, k) : k \in 1..Len(a) }

DefaultFile == abspath(expanduser(DEFAULT_SETTINGS_PATH))

AltFile == abspath(expanduser(AltConfig))

FilePaths == { DefaultFile, AltFile }

BaseDirs == { << "/" >>, HOME, CWD }

PootleDir == dirname(DefaultFile)

----------------------------------------------------------------------------
(* Command line: argparse *)

ConfigToken == "--config=./p.conf"

DashTokens == { ConfigToken, "--noinput", "--no-rq", "--help",
                "--db=mysql", "--db=oracle" }

Tokens == { "init", "check" } \cup DashTokens

\* command lines of at most MaxArgs arguments, no argument given twice
ArgVectors ==
    { a \in UNION { [1..n -> Tokens] : n \in 0..MaxArgs } :
        \A i, j \in DOMAIN a : a[i] = a[j] => i = j }

\* [c for c in sys.argv[1:] if not c.startswith("-")]
args_provided(a) == SelectSeq(a, LAMBDA c : c \notin DashTokens)

IsInitCommand(a) ==
    LET p == args_provided(a) IN p # << >> /\ p[1] = "init"

Has(a, t) == \E i \in 1..Len(a) : a[i] = t

\* args.config: the last --config wins, else the default
ArgConfig(a) == IF Has(a, ConfigToken) THEN AltConfig ELSE DEFAULT_SETTINGS_PATH

ArgNoinput(a) == Has(a, "--noinput")

ArgNoRq(a) == Has(a, "--no-rq")

\* what parse_known_args leaves over for the parser of run_app
Recognized == { ConfigToken, "--noinput", "--no-rq" }

Remainder(a) == SelectSeq(a, LAMBDA c : c \notin Recognized)

RECURSIVE LastDb(_, _)
LastDb(a, d) ==
    IF a = << >> THEN d
    ELSE LastDb(Tail(a), IF Head(a) = "--db=mysql" THEN "mysql"
                         ELSE IF Head(a) = "--db=oracle" THEN "oracle"
                         ELSE d)

\* args.db of the init parser: default sqlite, the last --db wins
ArgDb(a) == LastDb(a, "sqlite")

----------------------------------------------------------------------------
(* Text: a string is a sequence of atoms, "" is << >> *)

Str(a) == << a >>

\* "'%s'" % s
Quoted(s) == << "'" >> \o s \o << "'" >>

\* "working_path('%s')" % s
WorkingPath(s) == << "working_path(", "'" >> \o s \o << "'", ")" >>

\* a or b, on strings
OrElse(a, b) == IF a = << >> THEN b ELSE a

\* mutant of lower: the answer is compared as typed
lowerNone(r) == r

\* str.lower() on the answers the model types at a prompt
lower(r) == CASE r = "Y" -> "y" [] r = "YES" -> "yes" [] OTHER -> r

Responses == { "y", "yes", "Y", "YES", "n", "" }

NoAnswer == [asked |-> FALSE, text |-> ""]

----------------------------------------------------------------------------
(* init_settings: the template context *)

DbKinds == { "sqlite", "mysql", "postgresql" }

db_module == [ d \in DbKinds |->
                 CASE d = "sqlite" -> "sqlite3"
                   [] d = "mysql" -> "mysql"
                   [] d = "postgresql" -> "postgresql_psycopg2" ]

Keys == { "key1", "key2" }

NoCtx == [ default_key |-> << >>, db_engine |-> << >>, db_name |-> << >>,
           db_user |-> << >>, db_password |-> << >>, db_host |-> << >>,
           db_port |-> << >> ]

\* mutant of InitContext: sqlite is not told apart from the other kinds
InitContextQuoteAll(db, db_name, db_user, db_password, db_host, db_port, key) ==
    [ default_key |-> Quoted(Str(key)),
      db_engine   |-> Quoted(<< "transaction_hooks.backends.", db_module[db] >>),
      db_name     |-> Quoted(OrElse(db_name, Str("pootledb"))),
      db_user     |-> Quoted(OrElse(db_user, Str("pootle"))),
      db_password |-> Quoted(db_password),
      db_host     |-> Quoted(db_host),
      db_port     |-> Quoted(db_port) ]

\* lines 67-92; db is one of DbKinds
InitContext(db, db_name, db_user, db_password, db_host, db_port, key) ==
    LET sqlite == (db = "sqlite") IN
    [ default_key |-> Quoted(Str(key)),
      db_engine   |-> Quoted(<< "transaction_hooks.backends.", db_module[db] >>),
      db_name     |-> IF sqlite THEN WorkingPath(OrElse(db_name, Str("dbs/pootle.db")))
                      ELSE Quoted(OrElse(db_name, Str("pootledb"))),
      db_user     |-> IF sqlite THEN << "'", "'" >>
                      ELSE Quoted(OrElse(db_user, Str("pootle"))),
      db_password |-> IF sqlite THEN << "'", "'" >> ELSE Quoted(db_password),
      db_host     |-> IF sqlite THEN << "'", "'" >> ELSE Quoted(db_host),
      db_port     |-> IF sqlite THEN << "'", "'" >> ELSE Quoted(db_port) ]

\* settings/90-local.conf.template: the placeholders it names, in order
Template == << "default_key", "db_engine", "db_name", "db_user",
               "db_password", "db_host", "db_port" >>

\* template.read() % context
Render(c) == [ i \in 1..Len(Template) |-> c[Template[i]] ]

OldContent == << Str("old settings") >>

NoCall == [ made |-> FALSE, db |-> "sqlite", db_name |-> << >>, db_user |-> << >>,
            db_password |-> << >>, db_host |-> << >>, db_port |-> << >> ]

Faults == { "none", "makedirs", "open_target", "open_template", "substitute", "write" }

\* dirname and not os.path.exists(dirname), lines 63-64
NeedsDirs(cp, fs, ds) == dirname(cp) # << >> /\ ~PathExists(dirname(cp), fs, ds)

\* init_settings, lines 63-96: what it leaves behind when `fault` strikes
\* (cut: how much of the text a failing write got out)
init_settings(cp, c, key, fault, cut, fs, ds, cont) ==
    LET ds1    == IF NeedsDirs(cp, fs, ds) THEN makedirs(dirname(cp), ds) ELSE ds
        target == abspath(cp)
        fs1    == fs \cup { target }
        empty  == [cont EXCEPT ![target] = << >>]
        known  == c.db \in DbKinds
        cx     == IF known
                  THEN InitContext(c.db, c.db_name, c.db_user, c.db_password,
                                   c.db_host, c.db_port, key)
                  ELSE NoCtx
        text   == Render(cx)
    IN  CASE fault = "makedirs" ->
               [dirs |-> ds, files |-> fs, content |-> cont, ctx |-> NoCtx,
                error |-> "OSError"]
          [] fault # "makedirs" /\ ~known ->
               [dirs |-> ds1, files |-> fs, content |-> cont, ctx |-> NoCtx,
                error |-> "KeyError"]
          [] known /\ fault = "open_target" ->
               [dirs |-> ds1, files |-> fs, content |-> cont, ctx |-> cx,
                error |-> "IOError"]
          [] known /\ fault = "open_template" ->
               [dirs |-> ds1, files |-> fs1, content |-> empty, ctx |-> cx,
                error |-> "IOError"]
          [] known /\ fault = "substitute" ->
               [dirs |-> ds1, files |-> fs1, content |-> empty, ctx |-> cx,
                error |-> "KeyError"]
          [] known /\ fault = "write" ->
               [dirs |-> ds1, files |-> fs1,
                content |-> [cont EXCEPT ![target] = SubSeq(text, 1, cut)],
                ctx |-> cx, error |-> "IOError"]
          [] known /\ fault = "none" ->
               [dirs |-> ds1, files |-> fs1,
                content |-> [cont EXCEPT ![target] = text],
                ctx |-> cx, error |-> "none"]

\* the faults that can strike a given call, each with the cuts it allows
FaultCases(cp, fs, ds) ==
    { fc \in Faults \X (0..(Len(Template) - 1)) :
        /\ fc[1] = "makedirs" => NeedsDirs(cp, fs, ds)
        /\ fc[1] # "write" => fc[2] = 0 }

----------------------------------------------------------------------------
(* State *)

Queues == 1..NumQueues

CacheNames == { "redis", "stats" }

Unset == [set |-> FALSE, val |-> << >>]

EnvVal(v) == [set |-> TRUE, val |-> v]

NoCommand == [made |-> FALSE, argv |-> << >>]

RunnerName == "pootle"

\* the language table and its cache entry, models.py
Langs == { "af", "fr" }

Procs == 1..NumProcs

NoLanguages == [l \in Langs |-> 0]

\* cache.get(CACHE_KEY) is None
NoEntry == [present |-> FALSE, val |-> NoLanguages]

\* the file systems a run can start in: each of the two settings files is
\* there or not; ~/.pootle exists when its file does
FileSystems ==
    { [files |-> f,
       dirs |-> BaseDirs \cup (IF DefaultFile \in f THEN { PootleDir } ELSE { })] :
        f \in SUBSET FilePaths }

RunnerIdle ==
    /\ loaded = FALSE
    /\ caches = { }
    /\ queues = [q \in Queues |-> TRUE]
    /\ rqConfig = [q \in Queues |-> TRUE]
    /\ todo = { }
    /\ probe = "not asked"
    /\ answer = NoAnswer
    /\ exitCode = Running
    /\ error = "none"
    /\ out = << >>
    /\ ran = << >>
    /\ command = NoCommand
    /\ ctx = NoCtx

\* no web process touches the language table while the runner is observed
LanguagesIdle ==
    /\ langDb = NoLanguages
    /\ langCache = NoEntry
    /\ langOp = [p \in Procs |-> [kind |-> "none", lang |-> "af"]]
    /\ langPc = [p \in Procs |-> "done"]
    /\ languages = [p \in Procs |-> NoEntry]

Idle == RunnerIdle /\ LanguagesIdle

Init ==
    /\ argv \in ArgVectors
    /\ envSettings \in { Unset, EnvVal(<< >>), EnvVal(EnvConf) }
    /\ envModule \in { Unset, EnvVal(Str("custom.settings")) }
    /\ \E fs \in FileSystems : files = fs.files /\ dirs = fs.dirs
    /\ content = [p \in FilePaths |-> IF p \in files THEN OldContent ELSE << >>]
    /\ pc = "start"
    /\ call = NoCall
    /\ Idle

\* sys.exit(code), or an uncaught exception (status 1)
Exit(code, err) ==
    /\ pc' = "done"
    /\ exitCode' = code
    /\ error' = err

----------------------------------------------------------------------------
(* init_command, lines 99-159, and the init branch of run_app, 259-262 *)

\* config_path of init_command, line 128
InitPath == expanduser(ArgConfig(argv))

\* line 130
TargetExists == PathExists(InitPath, files, dirs)

\* input() is called: line 135
AsksOverwrite == TargetExists /\ ~ArgNoinput(argv)

\* what the prompt of line 135 can return; NoAnswer when it is not shown
OverwriteAnswers ==
    IF AsksOverwrite THEN { [asked |-> TRUE, text |-> r] : r \in Responses }
    ELSE { NoAnswer }

\* mutant of OverwriteResp: no-input answers yes, as it does in set_sync_mode
OverwriteRespYes(noinput, ans) == IF noinput THEN "y" ELSE lower(ans.text)

\* resp of lines 131-136
OverwriteResp(noinput, ans) == IF noinput THEN "n" ELSE lower(ans.text)

\* line 137, negated
OverwriteAccepted(resp) == resp \in { "y", "yes" }

\* lines 130-139: the gate lets init go on
GatePasses(ans) ==
    TargetExists => OverwriteAccepted(OverwriteResp(ArgNoinput(argv), ans))

\* mutant of DbKnown: the database kind is not validated
DbKnownAny(db) == TRUE

\* line 141, negated
DbKnown(db) == db \in { "mysql", "postgresql", "sqlite" }

InitFrame ==
    UNCHANGED << argv, envSettings, envModule, loaded, caches, queues, rqConfig,
                 todo, probe, command, langVars >>

InitStarts ==
    /\ pc = "start"
    /\ IsInitCommand(argv)
    /\ ran' = Append(ran, "ConfigBootstrapper")

\* line 127: the help action of the init parser prints and exits
InitHelp ==
    /\ InitStarts
    /\ Has(argv, "--help")
    /\ out' = Append(out, "help")
    /\ Exit(0, "none")
    /\ InitFrame
    /\ UNCHANGED << files, dirs, content, answer, call, ctx >>

\* lines 130-139: the overwrite gate declines
InitDeclined ==
    /\ InitStarts
    /\ ~Has(argv, "--help")
    /\ \E ans \in OverwriteAnswers :
         /\ ~GatePasses(ans)
         /\ answer' = ans
         /\ out' = out \o (IF ans.asked THEN << "prompt: overwrite?" >> ELSE << >>)
                       \o << "File already exists, not overwriting." >>
    /\ Exit(2, "none")
    /\ InitFrame
    /\ UNCHANGED << files, dirs, content, call, ctx >>

\* lines 141-144: CommandError
InitBadDb ==
    /\ InitStarts
    /\ ~Has(argv, "--help")
    /\ \E ans \in OverwriteAnswers :
         /\ GatePasses(ans)
         /\ answer' = ans
         /\ out' = out \o (IF ans.asked THEN << "prompt: overwrite?" >> ELSE << >>)
    /\ ~DbKnown(ArgDb(argv))
    /\ Exit(1, "CommandError")
    /\ InitFrame
    /\ UNCHANGED << files, dirs, content, call, ctx >>

\* lines 146-159: init_settings is called; run_app then exits 0 (line 262)
InitSettings ==
    /\ InitStarts
    /\ ~Has(argv, "--help")
    /\ DbKnown(ArgDb(argv))
    /\ \E ans \in OverwriteAnswers, key \in Keys,
          fc \in FaultCases(InitPath, files, dirs) :
         LET c == [NoCall EXCEPT !.made = TRUE, !.db = ArgDb(argv)]
             r == init_settings(InitPath, c, key, fc[1], fc[2], files, dirs, content)
             asked == IF ans.asked THEN << "prompt: overwrite?" >> ELSE << >>
         IN  /\ GatePasses(ans)
             /\ answer' = ans
             /\ call' = c
             /\ ctx' = r.ctx
             /\ files' = r.files
             /\ dirs' = r.dirs
             /\ content' = r.content
             /\ IF r.error = "none"
                THEN /\ out' = out \o asked \o
                          (IF ArgDb(argv) \in { "mysql", "postgresql" }
                           THEN << "Configuration file created; password not set" >>
                           ELSE << "Configuration file created" >>)
                     /\ Exit(0, "none")
                ELSE /\ out' = out \o asked
                     /\ Exit(1, r.error)
    /\ InitFrame

InitCommand == InitHelp \/ InitDeclined \/ InitBadDb \/ InitSettings

----------------------------------------------------------------------------
(* configure_app, lines 184-212 *)

\* lines 198-201
NormalizedConfig(p) == normpath(abspath(expanduser(p)))

\* os.environ.get(settings_envvar, None), as a truth value
EnvTruthy(env) == env.set /\ env.val # << >>

\* mutant of ConfigMissing: the environment variable is not consulted
ConfigMissingPathOnly(path, env, fs, ds) == ~PathExists(path, fs, ds)

\* the condition of lines 203-204
ConfigMissing(path, env, fs, ds) ==
    ~(PathExists(path, fs, ds) \/ EnvTruthy(env))

\* mutant of setdefault: plain assignment
setalways(env, value) == EnvVal(value)

\* os.environ.setdefault
setdefault(env, value) == IF env.set THEN env ELSE EnvVal(value)

RunFrame == UNCHANGED << argv, files, dirs, content, call, ctx, langVars >>

ConfigureApp ==
    /\ pc = "start"
    /\ ~IsInitCommand(argv)
    /\ ran' = Append(ran, "ConfigLocator")
    /\ LET path == NormalizedConfig(ArgConfig(argv)) IN
       IF ConfigMissing(path, envSettings, files, dirs)
       THEN /\ out' = Append(out, "Configuration file does not exist")
            /\ Exit(2, "none")
            /\ UNCHANGED << envSettings, envModule >>
       ELSE /\ envSettings' = setdefault(envSettings, path)
            /\ envModule' = setdefault(envModule, Str("pootle.settings"))
            /\ pc' = "configured"
            /\ UNCHANGED << out, exitCode, error >>
    /\ RunFrame
    /\ UNCHANGED << loaded, caches, queues, rqConfig, todo, probe, answer, command >>

----------------------------------------------------------------------------
(* the cache check of run_app, lines 271-286 *)

\* mutant of CachesReady: only the statistics cache is required
CachesReadyStats(cs) == "stats" \in cs

\* line 276, negated
CachesReady(cs) == "stats" \in cs /\ "redis" \in cs

\* mutant of SyncRequested: the mode is switched on every run
SyncRequestedAlways(a) == TRUE

\* line 285
SyncRequested(a) == ArgNoRq(a)

\* settings are configured on their first use (line 275): the settings file
\* decides CACHES and RQ_QUEUES
CacheGate ==
    /\ pc = "configured"
    /\ ran' = Append(ran, "CacheReadinessGate")
    /\ \E cs \in SUBSET CacheNames, rq \in [Queues -> BOOLEAN] :
         /\ loaded' = TRUE
         /\ caches' = cs
         /\ queues' = rq
         /\ rqConfig' = rq
         /\ IF CachesReady(cs)
            THEN /\ pc' = IF SyncRequested(argv) THEN "set_sync_mode" ELSE "dispatch"
                 /\ UNCHANGED << out, exitCode, error >>
            ELSE /\ out' = Append(out, "You need to configure the CACHES setting")
                 /\ Exit(2, "none")
    /\ RunFrame
    /\ UNCHANGED << envSettings, envModule, todo, probe, answer, command >>

----------------------------------------------------------------------------
(* set_sync_mode, lines 162-181 *)

\* mutant of ProceedAccepted: any answer proceeds
ProceedAcceptedAny(resp) == TRUE

\* line 175, negated
ProceedAccepted(resp) == resp \in { "y", "yes" }

\* mutant of WorkersPolicy: no-input is not looked at
WorkersPolicyAsk(noinput) == "ask"

\* lines 165-177: what the gate does with running workers
\*   "warn": print the warning and go on; "ask": prompt
WorkersPolicy(noinput) == IF noinput THEN "warn" ELSE "ask"

\* the prompt of line 174 is shown
ProceedAnswers(running) ==
    IF running /\ WorkersPolicy(ArgNoinput(argv)) = "ask"
    THEN { [asked |-> TRUE, text |-> r] : r \in Responses }
    ELSE { NoAnswer }

\* mutant of GateMessages: no-input proceeds without a word
GateMessagesQuiet(running, asked, accepted) ==
    IF ~running \/ ~asked THEN << >>
    ELSE IF accepted THEN << "prompt: proceed?" >>
    ELSE << "prompt: proceed?", "RQ workers running, not proceeding." >>

\* what lines 165-177 write to the terminal
GateMessages(running, asked, accepted) ==
    IF ~running THEN << >>
    ELSE IF ~asked THEN << "Warning: RQ workers running" >>
    ELSE IF accepted THEN << "prompt: proceed?" >>
    ELSE << "prompt: proceed?", "RQ workers running, not proceeding." >>

\* lines 165-177
SyncGate ==
    /\ pc = "set_sync_mode"
    /\ ran' = Append(ran, "ModeController")
    /\ \E running \in BOOLEAN :
       \E ans \in ProceedAnswers(running) :
         /\ probe' = IF running THEN "running" ELSE "idle"
         /\ answer' = ans
         /\ out' = out \o GateMessages(running, ans.asked, ProceedAccepted(ans.text))
         /\ IF running /\ ans.asked /\ ~ProceedAccepted(ans.text)
            THEN Exit(2, "none")
            ELSE /\ pc' = "sync_loop"
                 /\ UNCHANGED << exitCode, error >>
    /\ todo' = IF pc' = "sync_loop" THEN Queues ELSE { }
    /\ RunFrame
    /\ UNCHANGED << envSettings, envModule, loaded, caches, queues, rqConfig, command >>

\* mutant of SetSync: the first queue is left alone
SetSyncSkipFirst(qs, q) == IF q = 1 THEN qs ELSE [qs EXCEPT ![q] = FALSE]

\* mutant of SetSync: the flag is flipped
SetSyncToggle(qs, q) == [qs EXCEPT ![q] = ~qs[q]]

\* q['ASYNC'] = False
SetSync(qs, q) == [qs EXCEPT ![q] = FALSE]

\* one turn of the loop of lines 180-181; the dict decides the order
SyncQueue ==
    /\ pc = "sync_loop"
    /\ \E q \in todo :
         /\ queues' = SetSync(queues, q)
         /\ todo' = todo \ { q }
         /\ pc' = IF todo' = { } THEN "dispatch" ELSE "sync_loop"
    /\ RunFrame
    /\ UNCHANGED << envSettings, envModule, loaded, caches, rqConfig, probe, answer,
                    exitCode, error, out, ran, command >>

\* the loop of lines 180-181 is interrupted between two turns (SIGINT raises
\* KeyboardInterrupt): nothing catches it and nothing restores the queues
SyncInterrupted ==
    /\ pc = "sync_loop"
    /\ Exit(1, "KeyboardInterrupt")
    /\ RunFrame
    /\ UNCHANGED << envSettings, envModule, loaded, caches, queues, rqConfig, todo,
                    probe, answer, out, ran, command >>

----------------------------------------------------------------------------
(* dispatch, lines 288-300 *)

\* mutant of HelpOnly: an empty remainder takes the help path too
HelpOnlyOrEmpty(rem) == rem = << >> \/ (Len(rem) = 1 /\ rem[1] \in { "-h", "--help" })

\* line 289
HelpOnly(rem) == Len(rem) = 1 /\ rem[1] \in { "-h", "--help" }

\* mutant of BuildCommand: --noinput is always passed on
BuildCommandNoinput(rem, noinput) == << RunnerName >> \o rem \o << "--noinput" >>

\* lines 293-297
BuildCommand(rem, noinput) ==
    << RunnerName >> \o rem \o (IF noinput THEN << "--noinput" >> ELSE << >>)

DispatchFrame ==
    UNCHANGED << envSettings, envModule, loaded, caches, queues, rqConfig, todo,
                 probe, answer >>

\* lines 289-291: the help action prints the merged help and exits
DispatchHelp ==
    /\ pc = "dispatch"
    /\ HelpOnly(Remainder(argv))
    /\ ran' = Append(ran, "CommandDispatcher")
    /\ out' = Append(out, "help")
    /\ Exit(0, "none")
    /\ UNCHANGED command
    /\ RunFrame
    /\ DispatchFrame

\* lines 293-300: the command runs and the process ends with its status
DispatchCommand ==
    /\ pc = "dispatch"
    /\ ~HelpOnly(Remainder(argv))
    /\ ran' = Append(ran, "CommandDispatcher")
    /\ command' = [made |-> TRUE,
                   argv |-> BuildCommand(Remainder(argv), ArgNoinput(argv))]
    /\ \E status \in { 0, 1 } : Exit(status, "none")
    /\ UNCHANGED out
    /\ RunFrame
    /\ DispatchFrame

Next ==
    \/ InitCommand
    \/ ConfigureApp
    \/ CacheGate
    \/ SyncGate
    \/ SyncQueue
    \/ DispatchHelp
    \/ DispatchCommand

Spec == Init /\ [][Next]_vars

\* the same runs, when the user may interrupt the mode switch
NextInterruptible == Next \/ SyncInterrupted

SpecInterrupt == Init /\ [][NextInterruptible]_vars

----------------------------------------------------------------------------
(* init_settings called on its own, with any arguments *)

Names == { << >>, Str("foo") }

Users == { << >>, Str("bob") }

Passwords == { << >>, Str("secret") }

Hosts == { << >>, Str("db.example.org") }

Ports == { << >>, Str("5432") }

InitSettingsInputs ==
    [ made : { FALSE }, db : DbKinds \cup { "oracle" }, db_name : Names,
      db_user : Users, db_password : Passwords, db_host : Hosts, db_port : Ports ]

InitArgs ==
    /\ argv = << >>
    /\ envSettings = Unset
    /\ envModule = Unset
    /\ \E fs \in FileSystems : files = fs.files /\ dirs = fs.dirs
    /\ content = [p \in FilePaths |-> IF p \in files THEN OldContent ELSE << >>]
    /\ pc = "init_settings"
    /\ call \in InitSettingsInputs
    /\ Idle

\* init_settings(expanduser(DEFAULT_SETTINGS_PATH), template, **call)
InitSettingsCall ==
    /\ pc = "init_settings"
    /\ \E key \in Keys,
          fc \in FaultCases(expanduser(DEFAULT_SETTINGS_PATH), files, dirs) :
         LET r == init_settings(expanduser(DEFAULT_SETTINGS_PATH),
                                [call EXCEPT !.made = TRUE], key, fc[1], fc[2],
                                files, dirs, content)
         IN  /\ call' = [call EXCEPT !.made = TRUE]
             /\ ctx' = r.ctx
             /\ files' = r.files
             /\ dirs' = r.dirs
             /\ content' = r.content
             /\ error' = r.error
             /\ pc' = IF r.error = "none" THEN "returned" ELSE "raised"
    /\ UNCHANGED << argv, envSettings, envModule, loaded, caches, queues, rqConfig,
                    todo, probe, answer, exitCode, out, ran, command, langVars >>

SpecInitSettings == InitArgs /\ [][InitSettingsCall]_vars

----------------------------------------------------------------------------
(* Properties of configure_app *)

----------------------------------------------------------------------------
(* pootle_language/models.py: LiveLanguageManager.cached, Language.save and
   Language.delete, each run by one of several web processes that share the
   database and the cache server. A row of the language table is its code and
   the revision of its fields; revision 0 is a language that is not live. *)

\* `if not languages`, line 63: None and the empty list both count as a miss
Truthy(entry) == entry.present /\ entry.val # NoLanguages

\* the list LiveLanguageManager.all() evaluates to
LiveList(db) == [present |-> TRUE, val |-> db]

LangOps ==
    { [kind |-> "cached", lang |-> "af"] }
        \cup { [kind |-> k, lang |-> l] : k \in { "save", "delete" }, l \in Langs }

FirstStep(op) ==
    CASE op.kind = "cached" -> "get"
      [] op.kind = "save" -> "save"
      [] op.kind = "delete" -> "delete"

LangFrame ==
    UNCHANGED << argv, envSettings, envModule, files, dirs, content, loaded, caches,
                 queues, rqConfig, todo, probe, answer, pc, exitCode, error, out, ran,
                 command, call, ctx, langOp >>

\* languages = cache.get(CACHE_KEY), lines 62-63
CachedGet(p) ==
    /\ langPc[p] = "get"
    /\ languages' = [languages EXCEPT ![p] = langCache]
    /\ langPc' = [langPc EXCEPT ![p] = IF Truthy(langCache) THEN "done" ELSE "all"]
    /\ UNCHANGED << langDb, langCache >>
    /\ LangFrame

\* languages = self.all(), line 64: the query that cache.set evaluates to
\* pickle the list, a read of the database apart from the write of the cache
CachedAll(p) ==
    /\ langPc[p] = "all"
    /\ languages' = [languages EXCEPT ![p] = LiveList(langDb)]
    /\ langPc' = [langPc EXCEPT ![p] = "set"]
    /\ UNCHANGED << langDb, langCache >>
    /\ LangFrame

\* cache.set(CACHE_KEY, languages, settings.OBJECT_CACHE_TIMEOUT), line 65
CachedSet(p) ==
    /\ langPc[p] = "set"
    /\ langCache' = languages[p]
    /\ langPc' = [langPc EXCEPT ![p] = "done"]
    /\ UNCHANGED << langDb, languages >>
    /\ LangFrame

\* super(Language, self).save(), line 138: the row of a live language changes
SaveRow(p) ==
    /\ langPc[p] = "save"
    /\ langDb' = [langDb EXCEPT ![langOp[p].lang] = IF @ > 0 THEN @ + 1 ELSE 0]
    /\ langPc' = [langPc EXCEPT ![p] = "save_invalidate"]
    /\ UNCHANGED << langCache, languages >>
    /\ LangFrame

\* cache.delete(CACHE_KEY), line 141
SaveInvalidate(p) ==
    /\ langPc[p] = "save_invalidate"
    /\ langCache' = NoEntry
    /\ langPc' = [langPc EXCEPT ![p] = "done"]
    /\ UNCHANGED << langDb, languages >>
    /\ LangFrame

\* super(Language, self).delete() and directory.delete(), lines 144-146
DeleteRow(p) ==
    /\ langPc[p] = "delete"
    /\ langDb' = [langDb EXCEPT ![langOp[p].lang] = 0]
    /\ langPc' = [langPc EXCEPT ![p] = "delete_invalidate"]
    /\ UNCHANGED << langCache, languages >>
    /\ LangFrame

\* cache.delete(CACHE_KEY), line 149
DeleteInvalidate(p) ==
    /\ langPc[p] = "delete_invalidate"
    /\ langCache' = NoEntry
    /\ langPc' = [langPc EXCEPT ![p] = "done"]
    /\ UNCHANGED << langDb, languages >>
    /\ LangFrame

\* the entry outlives settings.OBJECT_CACHE_TIMEOUT, line 65
CacheExpires ==
    /\ langCache.present
    /\ langCache' = NoEntry
    /\ UNCHANGED << langDb, langPc, languages >>
    /\ LangFrame

\* the processes start with the entry absent or holding the current list
InitLanguages ==
    /\ argv = << >>
    /\ envSettings = Unset
    /\ envModule = Unset
    /\ files = { }
    /\ dirs = BaseDirs
    /\ content = [p \in FilePaths |-> << >>]
    /\ pc = "languages"
    /\ call = NoCall
    /\ RunnerIdle
    /\ langDb \in [Langs -> { 0, 1 }]
    /\ langCache \in { NoEntry, LiveList(langDb) }
    /\ langOp \in [Procs -> LangOps]
    /\ langPc = [p \in Procs |-> FirstStep(langOp[p])]
    /\ languages = [p \in Procs |-> NoEntry]

NextLanguages ==
    \/ \E p \in Procs :
          \/ CachedGet(p)
          \/ CachedAll(p)
          \/ CachedSet(p)
          \/ SaveRow(p)
          \/ SaveInvalidate(p)
          \/ DeleteRow(p)
          \/ DeleteInvalidate(p)
    \/ CacheExpires

SpecLanguages == InitLanguages /\ [][NextLanguages]_vars

\* the absolute normalized form of the configuration path of the command line
ExpectedConfigFile ==
    IF Has(argv, "--config=./p.conf") THEN << "/", "w", "p.conf" >>
    ELSE << "/", "home", ".pootle", "pootle.conf" >>

ConfigOnDisk == ExpectedConfigFile \in (files \cup dirs)

\* a step of configure_app
ConfigureStep == pc = "start" /\ ~IsInitCommand(argv) /\ pc' # "start"

\* configure_app printed its diagnostic and exited with status 2
ConfigFailed ==
    /\ pc = "done"
    /\ exitCode = 2
    /\ out = << "Configuration file does not exist" >>

\* configure_app returned
ConfigReturned == pc = "configured" /\ exitCode = Running /\ out = << >>

\* C1, as stated: configure_app fails (diagnostic, exit status 2) if and only
\* if the normalized config path does not exist and the settings environment
\* variable is unset; otherwise it returns normally.
C1_FailsIffMissingAndUnset ==
    [][ConfigureStep =>
         /\ ConfigFailed' <=> (~ConfigOnDisk /\ ~envSettings.set)
         /\ ~ConfigFailed' => ConfigReturned']_vars

\* C1, amended: configure_app fails (diagnostic, exit status 2) if and only if
\* the normalized config path does not exist and the settings environment
\* variable is unset or set to the empty string; otherwise it returns normally.
C1_FailsIffMissingAndUnsetOrEmpty ==
    [][ConfigureStep =>
         /\ ConfigFailed' <=>
              (~ConfigOnDisk /\ (~envSettings.set \/ envSettings.val = << >>))
         /\ ~ConfigFailed' => ConfigReturned']_vars

\* configure_app failed although the variable was set (to the empty string)
C1_Witness ==
    /\ ConfigFailed
    /\ ran = << "ConfigLocator" >>
    /\ envSettings = EnvVal(<< >>)

\* C2: configure_app never changes the settings variable or the settings-module
\* variable when it was set before the call; a variable is written only when
\* it was unset, and so at most once.
C2_SetVariablesKept ==
    [][/\ envSettings.set => envSettings' = envSettings
       /\ envModule.set => envModule' = envModule]_vars

\* configure_app returned with both variables as they were set before the call
C2_Witness ==
    /\ pc = "configured"
    /\ envSettings = EnvVal(EnvConf)
    /\ envModule = EnvVal(Str("custom.settings"))

----------------------------------------------------------------------------
(* Properties of init *)

\* a step of init_command
InitStep == pc = "start" /\ pc' # "start" /\ ran' = << "ConfigBootstrapper" >>

\* the init parser gets past its help action
InitParsed == InitStep /\ ~Has(argv, "--help")

\* the answer typed at a prompt is an affirmative one, in any case
Affirmative(ans) == ans.asked /\ ans.text \in { "y", "yes", "Y", "YES" }

FileSystemKept == files' = files /\ dirs' = dirs /\ content' = content

InvalidDb == ArgDb(argv) \notin { "sqlite", "mysql", "postgresql" }

\* C3, as stated: init with a --db value outside {sqlite, mysql, postgresql}
\* always fails with the command error, whatever the state of the target path,
\* and before any directory is created or any file written.
C3_InvalidDbAlwaysCommandError ==
    [][(InitParsed /\ InvalidDb) =>
         /\ error' = "CommandError"
         /\ exitCode' = 1
         /\ FileSystemKept]_vars

\* C3, amended: init with an invalid --db value creates no directory and writes
\* no file; it fails with the command error when the target path is absent or
\* the overwrite prompt is answered affirmatively, and exits with code 2,
\* without the command error, when the overwrite gate declines.
C3_InvalidDbNeverWrites ==
    [][(InitParsed /\ InvalidDb) =>
         /\ FileSystemKept
         /\ IF ConfigOnDisk /\ ~Affirmative(answer')
            THEN exitCode' = 2 /\ error' = "none"
            ELSE exitCode' = 1 /\ error' = "CommandError"]_vars

\* init --db=oracle on an existing file, overwrite confirmed: the command error
C3_Witness ==
    /\ ran = << "ConfigBootstrapper" >>
    /\ ArgDb(argv) = "oracle"
    /\ ConfigOnDisk
    /\ answer = [asked |-> TRUE, text |-> "y"]
    /\ error = "CommandError"

\* C4: when the target path exists and the overwrite gate declines (no-input,
\* and then no prompt is shown; or an answer that is not affirmative), init
\* exits with code 2, the file keeps its content and nothing is created.
C4_DeclinedKeepsFile ==
    [][(InitParsed /\ ConfigOnDisk /\ (ArgNoinput(argv) \/ ~Affirmative(answer'))) =>
         /\ pc' = "done"
         /\ exitCode' = 2
         /\ FileSystemKept
         /\ ArgNoinput(argv) =>
              (~answer'.asked /\ out' = << "File already exists, not overwriting." >>)]_vars

\* init --noinput on an existing file has exited with code 2, the file as it was
C4_Witness ==
    /\ ran = << "ConfigBootstrapper" >>
    /\ ArgNoinput(argv)
    /\ ConfigOnDisk
    /\ content[ExpectedConfigFile] = << << "old settings" >> >>
    /\ exitCode = 2

----------------------------------------------------------------------------
(* Properties of the run: cache gate, mode switch, order of the components *)

Ran(c) == \E i \in 1..Len(ran) : ran[i] = c

AllSync == \A q \in DOMAIN queues : queues[q] = FALSE

\* C6: synchronous mode forced, the probe reports running workers, no-input is
\* false and the answer is not y or yes: the process exits with code 2, no
\* queue descriptor has changed and no command is dispatched.
C6_DeclinedSwitchExits ==
    (/\ Ran("ModeController") /\ probe = "running" /\ ~Has(argv, "--noinput")
     /\ answer.text \notin { "y", "yes" }) =>
        /\ pc = "done"
        /\ exitCode = 2
        /\ queues = rqConfig
        /\ todo = { }
        /\ ~command.made
        /\ ~Ran("CommandDispatcher")

\* the conflict prompt was answered n
C6_Witness ==
    /\ Ran("ModeController")
    /\ probe = "running"
    /\ answer = [asked |-> TRUE, text |-> "n"]
    /\ \E q \in DOMAIN rqConfig : rqConfig[q]
    /\ exitCode = 2

\* C7: synchronous mode forced with no-input set: set_sync_mode never exits,
\* whatever the probe reports, every queue descriptor is in synchronous mode
\* when it returns, and the run goes on to dispatch.
C7_NoinputAlwaysSwitches ==
    (Ran("ModeController") /\ Has(argv, "--noinput")) =>
        /\ ~answer.asked
        /\ pc \in { "sync_loop", "dispatch", "done" }
        /\ pc = "done" => Ran("CommandDispatcher")
        /\ pc \in { "dispatch", "done" } => AllSync

\* with running workers and no-input, all queues were switched before dispatch
C7_Witness ==
    /\ Has(argv, "--noinput")
    /\ probe = "running"
    /\ pc = "dispatch"
    /\ \A q \in DOMAIN rqConfig : rqConfig[q]
    /\ AllSync

\* C8: when CACHES lacks the stats or the redis cache, run_app exits with code
\* 2; no queue descriptor is changed and no command is executed in that run.
C8_MissingCacheExits ==
    (loaded /\ ("stats" \notin caches \/ "redis" \notin caches)) =>
        /\ pc = "done"
        /\ exitCode = 2
        /\ queues = rqConfig
        /\ probe = "not asked"
        /\ ~command.made
        /\ ran = << "ConfigLocator", "CacheReadinessGate" >>

\* --no-rq was given, only the redis cache is missing: exit 2
C8_Witness ==
    /\ Has(argv, "--no-rq")
    /\ loaded
    /\ caches = { "stats" }
    /\ exitCode = 2

\* the first argument that does not start with "-" is init
FirstNonFlagIsInit ==
    \E i \in 1..Len(argv) :
        /\ argv[i] = "init"
        /\ \A j \in 1..(i - 1) : argv[j] \notin { "init", "check" }

IsPrefix(s, t) == Len(s) <= Len(t) /\ s = SubSeq(t, 1, Len(s))

ExpectedOrder ==
    << "ConfigLocator", "CacheReadinessGate" >>
      \o (IF Has(argv, "--no-rq") THEN << "ModeController" >> ELSE << >>)
      \o << "CommandDispatcher" >>

\* the components entered so far came in order, each after the one before it
\* succeeded; an init run enters the bootstrapper alone
InOrder ==
    IF FirstNonFlagIsInit
    THEN /\ ran \in { << >>, << "ConfigBootstrapper" >> }
         /\ ran # << >> => pc = "done"
         /\ ~loaded
         /\ probe = "not asked"
         /\ queues = rqConfig
         /\ ~command.made
    ELSE /\ IsPrefix(ran, ExpectedOrder)
         /\ Len(ran) >= 2 => (envSettings.set /\ envModule.set)
         /\ Len(ran) >= 3 => { "stats", "redis" } \subseteq caches
         /\ (Ran("CommandDispatcher") /\ Has(argv, "--no-rq")) => AllSync
         /\ ~Ran("ModeController") => queues = rqConfig
         /\ command.made => ran = ExpectedOrder

\* C9: the components run in the order ConfigLocator, CacheReadinessGate,
\* ModeController (only when synchronous mode is requested), CommandDispatcher,
\* each starting only after the previous one succeeded; when the first non-flag
\* argument is init only the ConfigBootstrapper runs, and the process exits
\* without setting an environment variable, checking caches, changing a queue
\* mode or dispatching a command.
C9_ComponentOrder ==
    [][/\ InOrder'
       /\ FirstNonFlagIsInit =>
            (envSettings' = envSettings /\ envModule' = envModule)]_vars

\* a run with --no-rq went through all four components
C9_Witness ==
    /\ pc = "done"
    /\ ran = << "ConfigLocator", "CacheReadinessGate", "ModeController",
                "CommandDispatcher" >>
    /\ command.made

----------------------------------------------------------------------------
(* Properties of init_settings *)

EmptyLiteral == << "'", "'" >>

\* C10: for sqlite the context does not depend on user, password, host and
\* port, which are all the empty quoted literal, and the database name is a
\* working-path expression around the given name, or around dbs/pootle.db
\* when no name is given, never a quoted literal.
C10_SqliteContext ==
    (call.made /\ call.db = "sqlite" /\ ctx # NoCtx) =>
        /\ ctx.db_user = EmptyLiteral
        /\ ctx.db_password = EmptyLiteral
        /\ ctx.db_host = EmptyLiteral
        /\ ctx.db_port = EmptyLiteral
        /\ ctx.db_name =
             << "working_path(", "'" >>
               \o (IF call.db_name = << >> THEN << "dbs/pootle.db" >> ELSE call.db_name)
               \o << "'", ")" >>
        /\ ctx.db_name[1] # "'"

\* sqlite, called with a user, a password, a host and a port and without a name
C10_Witness ==
    /\ call.made
    /\ call.db = "sqlite"
    /\ call.db_name = << >>
    /\ call.db_user = << "bob" >>
    /\ call.db_password = << "secret" >>
    /\ call.db_host = << "db.example.org" >>
    /\ call.db_port = << "5432" >>
    /\ ctx.db_name = << "working_path(", "'", "dbs/pootle.db", "'", ")" >>
    /\ pc = "returned"

----------------------------------------------------------------------------
(* Properties of the dispatch *)

\* the arguments run_app does not recognize, in their order
Unrecognized ==
    SelectSeq(argv, LAMBDA t : t \notin { "--config=./p.conf", "--noinput", "--no-rq" })

HelpShown == \E i \in 1..Len(out) : out[i] = "help"

\* C11, as stated: in a run where the remainder of unrecognized arguments is
\* empty, the command executor is not invoked, with the bare program name,
\* unless the help path was taken first.
C11_EmptyRemainderTakesHelp ==
    (Unrecognized = << >> /\ command.made) => HelpShown

\* C11, amended: run_app takes its help path exactly when the remainder is one
\* help flag, and then the executor is not invoked; with an empty remainder it
\* takes no help path and invokes the executor with the program name alone,
\* followed by --noinput when no-input was requested.
C11_EmptyRemainderDispatched ==
    Ran("CommandDispatcher") =>
        /\ HelpShown <=> Unrecognized = << "--help" >>
        /\ HelpShown <=> ~command.made
        /\ Unrecognized = << >> =>
             command.argv = IF Has(argv, "--noinput") THEN << "pootle", "--noinput" >>
                            ELSE << "pootle" >>

\* pootle --no-rq: the executor got the bare program name
C11_Witness ==
    /\ argv = << "--no-rq" >>
    /\ command = [made |-> TRUE, argv |-> << "pootle" >>]
    /\ ~HelpShown

----------------------------------------------------------------------------
(* Properties of the mode switch *)

\* control is outside set_sync_mode
OutsideSetSyncMode == pc # "sync_loop"

AllOrNothing == AllSync \/ queues = rqConfig

\* C12, as stated: in every state observable outside set_sync_mode (normal
\* return, exit with code 2, or the per-queue update interrupted) either every
\* queue descriptor is synchronous or every one has the mode it had before.
C12_SwitchAtomic == OutsideSetSyncMode => AllOrNothing

\* C12, amended: on normal return of set_sync_mode and on its exit with code
\* 2 either every queue descriptor is synchronous or every one has the mode
\* it had before; an interruption of the per-queue loop is not rolled back and
\* can leave only some of the queues switched.
C12_SwitchAtomicUnlessInterrupted ==
    (OutsideSetSyncMode /\ error # "KeyboardInterrupt") => AllOrNothing

\* set_sync_mode returned: two asynchronous queues are now synchronous
C12_Witness ==
    /\ Ran("ModeController")
    /\ pc = "dispatch"
    /\ \A q \in DOMAIN rqConfig : rqConfig[q]
    /\ AllSync
    /\ error = "none"

WarningShown == \E i \in 1..Len(out) : out[i] = "Warning: RQ workers running"

PromptShown == \E i \in 1..Len(out) : out[i] = "prompt: proceed?"

\* the case of C13, once the gate has run
NoinputWithWorkers ==
    Ran("ModeController") /\ Has(argv, "--noinput") /\ probe = "running"

\* C13: synchronous mode forced with no-input set and running workers:
\* set_sync_mode shows no prompt, writes the conflict warning before any queue
\* descriptor is changed, never exits, and the run goes on to dispatch.
C13_NoinputWarnsThenSwitches ==
    [][/\ NoinputWithWorkers' =>
            /\ ~answer'.asked /\ ~PromptShown'
            /\ WarningShown'
            /\ pc' \in { "sync_loop", "dispatch", "done" }
            /\ pc' = "done" => (Ran("CommandDispatcher")' /\ AllSync')
            /\ pc' = "dispatch" => AllSync'
       /\ (loaded /\ Has(argv, "--noinput") /\ probe' = "running" /\ queues' # queues) =>
            (WarningShown /\ pc = "sync_loop")]_vars

\* warned, all queues switched, about to dispatch
C13_Witness ==
    /\ NoinputWithWorkers
    /\ out = << "Warning: RQ workers running" >>
    /\ pc = "dispatch"
    /\ queues # rqConfig
    /\ AllSync

----------------------------------------------------------------------------
(* Properties of the argument vector *)

\* C14: the vector handed to the executor is the program name, then the
\* unrecognized arguments in their original order, then one --noinput if and
\* only if no-input was requested; the config-path and queue-mode flags never
\* appear in it.
C14_CommandVector ==
    command.made =>
        /\ command.argv =
             << "pootle" >> \o Unrecognized
               \o (IF Has(argv, "--noinput") THEN << "--noinput" >> ELSE << >>)
        /\ \A i \in 1..Len(command.argv) :
             command.argv[i] \notin { "--config=./p.conf", "--no-rq" }
        /\ Cardinality({ i \in 1..Len(command.argv) : command.argv[i] = "--noinput" })
             = IF Has(argv, "--noinput") THEN 1 ELSE 0

\* pootle --noinput check --db=mysql
C14_Witness ==
    /\ argv = << "--noinput", "check", "--db=mysql" >>
    /\ command = [made |-> TRUE,
                  argv |-> << "pootle", "check", "--db=mysql", "--noinput" >>]

----------------------------------------------------------------------------
(* Properties the code does not have *)

\* C15: whenever configure_app returns normally the settings variable is set
\* to a non-empty value, its earlier value or the normalized config path, also
\* when it was set to the empty string before and the config path exists.
C15_SettingsVariableNonEmpty ==
    pc = "configured" =>
        /\ envSettings.set
        /\ envSettings.val # << >>
        /\ envSettings.val \in { << "/", "env.conf" >>, ExpectedConfigFile }

\* C16: an init run that ends in an I/O error after the overwrite gate passed
\* leaves an existing target file with its content; after any init run the
\* target file has its old content or the complete substituted template, and
\* is never empty or partial.
C16_TargetOldOrComplete ==
    [][InitStep =>
         LET f == ExpectedConfigFile IN
           \/ /\ (f \in files') <=> (f \in files)
              /\ content'[f] = content[f]
           \/ /\ f \in files'
              /\ ctx' # NoCtx
              /\ content'[f] = [i \in 1..7 |-> ctx'[Template[i]]]]_vars

\* the live-worker gate let the run go on
SwitchProceeded == ~(pc = "done" /\ exitCode = 2)

\* C17: the overwrite gate of init and the live-worker gate of set_sync_mode
\* take the same answers as affirmative: an answer that makes init overwrite
\* (y, yes, Y, YES) makes set_sync_mode proceed, and no other answer does.
C17_GatesAgree ==
    (Ran("ModeController") /\ answer.asked) =>
        (SwitchProceeded <=>
           OverwriteAccepted(OverwriteResp(FALSE, [asked |-> TRUE, text |-> answer.text])))

----------------------------------------------------------------------------
(* Frame of the queue descriptors *)

\* the state of C18: who may have touched the queues so far
QueuesFramed ==
    /\ (~Has(argv, "--no-rq") \/ (pc = "done" /\ exitCode = 2)) => queues = rqConfig
    /\ ~Ran("ModeController") => queues = rqConfig
    /\ (Ran("ModeController") /\ probe = "idle") =>
         /\ ~answer.asked
         /\ out = IF pc = "done" /\ HelpShown THEN << "help" >> ELSE << >>
         /\ pc \in { "sync_loop", "dispatch", "done" }
         /\ pc \in { "dispatch", "done" } => AllSync

\* C18: a queue descriptor only ever changes from asynchronous to
\* synchronous, and only inside set_sync_mode after the live-worker gate has
\* passed; without --no-rq, or when the run exits with code 2 at the config,
\* cache or mode-switch gate, every queue keeps its initial mode; and with no
\* live workers set_sync_mode switches every queue without prompt or warning,
\* whatever the no-input setting.
C18_QueuesOnlySwitchedToSync ==
    [][/\ QueuesFramed'
       /\ (loaded /\ queues' # queues) =>
            /\ pc = "sync_loop"
            /\ Ran("ModeController")
            /\ probe = "idle" \/ Has(argv, "--noinput") \/ answer.text \in { "y", "yes" }
            /\ rqConfig' = rqConfig
            /\ \A q \in DOMAIN queues :
                 queues'[q] # queues[q] => (queues[q] = TRUE /\ queues'[q] = FALSE)]_vars

\* no workers, no --noinput: both queues switched silently
C18_Witness ==
    /\ Ran("ModeController")
    /\ probe = "idle"
    /\ ~Has(argv, "--noinput")
    /\ rqConfig = [q \in DOMAIN rqConfig |-> TRUE]
    /\ AllSync
    /\ out = << >>
    /\ pc = "dispatch"

----------------------------------------------------------------------------
(* Properties of the cached language list *)

AllCompleted == \A p \in Procs : langPc[p] = "done"

\* C19: once every cached(), save() and delete() has completed, the cache entry
\* of the language list is absent or equal to the live languages in the database
C19_CacheAbsentOrCurrent ==
    AllCompleted => (~langCache.present \/ langCache.val = langDb)

====
